---- MODULE Spec2Model ----
(***************************************************************************)
(* Model of interactivemap.py, the San Jose EIH Site Explorer dashboard.   *)
(*                                                                         *)
(* The script is a Streamlit page: every widget event re-executes it from  *)
(* top to bottom (load, Map Viewer tab, AI Site Analysis tab, Community    *)
(* Pulse tab, Resident Matching tab, Post-Site Feedback tab).              *)
(*                                                                         *)
(* Numbers.  The script computes in binary floating point; the model       *)
(* computes the same expressions exactly, in fixed point:                  *)
(*   - a weight is held in hundredths (the step of st.slider(0.0, 1.0)),   *)
(*   - a sentiment score and a proximity are whole numbers,                *)
(*   - an IIS score is held in units of 1/100000, so that                  *)
(*     w_sent * (s / 100) + w_lib * (1 - min(l, 1000) / 1000) + ...        *)
(*     is the integer w_sent * s * 10 + w_lib * (1000 - min(l, 1000)) + ...*)
(*   - a value formatted with :.2f is held in hundredths.                  *)
(* A cell that is empty in the CSV is NaN, as pandas.read_csv makes it.    *)
(***************************************************************************)
EXTENDS Integers, Sequences, FiniteSets, TLC

\* ------------------------------------------------------------------ bounds

\* Longest CSV (number of rows) the dashboard is started on.
MaxSites == 2

\* Most sites chosen in the multiselect at once.
MaxSelected == 2

\* Most lines appended to site_feedback_log.txt.
MaxLog == 1

\* Proximities tried by the scorer: -250, 0, 250, ..., 250 * MaxProxSteps.
MaxProxSteps == 5

\* Sentiment scores tried by the scorer: -25, 0, 25, ..., 25 * MaxSentSteps.
MaxSentSteps == 4

\* ------------------------------------------------------- values and cells

\* The value pandas gives an empty CSV cell (no model number collides with it).
NaN == -99999999

\* min(row[...], 1000): the distance beyond which a site scores no proximity.
ProximityCap == 1000

\* tag_site's thresholds 0.75 and 0.5, in units of 1/100000.
IdealThreshold == 75000

ModerateThreshold == 50000

\* weight_sentiment, weight_library, weight_hospital of the Map Viewer tab,
\* which are also the sliders' initial positions; in hundredths.
DefaultWeights == [sentiment |-> 33, library |-> 33, hospital |-> 34]

\* Positions of a weight slider st.slider(label, 0.0, 1.0, default), sampled.
SliderValues == {v \in 0..100 : v % 25 = 0 \/ v \in {33, 34}}

\* Positions of the three sliders the dashboard run moves between.
SliderStops(which) == {0, DefaultWeights[which], 100}

ProxValues == {250 * i : i \in -1..MaxProxSteps}

SentValues == {25 * i : i \in -1..MaxSentSteps}

\* ------------------------------------------------------------ the scorer

\* Python's min(x, 1000) on a cell: `1000 < nan` is False, so the cell is kept.
PyMin(x, cap) == IF x = NaN THEN NaN ELSE IF cap < x THEN cap ELSE x

\* calculate_iis with norm_lib = min(...) / 1000: the "1 -" left out.
calculate_iis_NotInverted(row, w_sent, w_lib, w_hosp) ==
    IF row.sentiment_score = NaN \/ row.proximity_to_library = NaN
       \/ row.proximity_to_hospital = NaN
    THEN NaN
    ELSE w_sent * row.sentiment_score * 10
         + w_lib * PyMin(row.proximity_to_library, ProximityCap)
         + w_hosp * PyMin(row.proximity_to_hospital, ProximityCap)

\* calculate_iis without the min(..., 1000) clamp.
calculate_iis_NoClamp(row, w_sent, w_lib, w_hosp) ==
    IF row.sentiment_score = NaN \/ row.proximity_to_library = NaN
       \/ row.proximity_to_hospital = NaN
    THEN NaN
    ELSE w_sent * row.sentiment_score * 10
         + w_lib * (1000 - row.proximity_to_library)
         + w_hosp * (1000 - row.proximity_to_hospital)

\* calculate_iis with norm_sent = 1 - sentiment_score / 100.
calculate_iis_SentInverted(row, w_sent, w_lib, w_hosp) ==
    IF row.sentiment_score = NaN \/ row.proximity_to_library = NaN
       \/ row.proximity_to_hospital = NaN
    THEN NaN
    ELSE w_sent * (1000 - row.sentiment_score * 10)
         + w_lib * (1000 - PyMin(row.proximity_to_library, ProximityCap))
         + w_hosp * (1000 - PyMin(row.proximity_to_hospital, ProximityCap))

\* calculate_iis(row, w_sent, w_lib, w_hosp), in units of 1/100000.
\* Any NaN operand makes the sum NaN (also under a weight of 0).
calculate_iis(row, w_sent, w_lib, w_hosp) ==
    IF row.sentiment_score = NaN \/ row.proximity_to_library = NaN
       \/ row.proximity_to_hospital = NaN
    THEN NaN
    ELSE w_sent * row.sentiment_score * 10
         + w_lib * (1000 - PyMin(row.proximity_to_library, ProximityCap))
         + w_hosp * (1000 - PyMin(row.proximity_to_hospital, ProximityCap))

\* tag_site with strict comparisons.
tag_site_Strict(score) ==
    IF score # NaN /\ score > IdealThreshold THEN "Ideal"
    ELSE IF score # NaN /\ score > ModerateThreshold THEN "Moderate"
    ELSE "Poor"

\* tag_site(score): every comparison with NaN is False, so NaN is "Poor".
tag_site(score) ==
    IF score # NaN /\ score >= IdealThreshold THEN "Ideal"
    ELSE IF score # NaN /\ score >= ModerateThreshold THEN "Moderate"
    ELSE "Poor"

\* ---------------------------------------------------- the dataset (CSV)

\* The columns of san_jose_eih_sites.csv the script reads.
RawFields == {"site_name", "latitude", "longitude", "proximity_to_library",
              "proximity_to_hospital", "sentiment_score"}

Site(n, lat, lon, lib, hosp, sent) ==
    [site_name |-> n, latitude |-> lat, longitude |-> lon,
     proximity_to_library |-> lib, proximity_to_hospital |-> hosp,
     sentiment_score |-> sent]

\* Rows a CSV is made of: a close well-liked site, a far site whose default
\* score is a :.2f tie (0.335), a site with an empty proximity_to_library
\* cell, and a site with an empty latitude cell.
SiteCatalogue ==
    { Site("A", 37, -121, 0, 0, 100),
      Site("B", 37, -122, 1250, 500, 50),
      Site("C", 38, -121, NaN, 250, 75),
      Site("D", NaN, -121, 250, 250, 75) }

\* The CSV files: up to MaxSites distinct catalogue rows in any order, at
\* least one of them with coordinates.
CsvFiles ==
    {f \in UNION {[1..k -> SiteCatalogue] : k \in 1..MaxSites} :
        /\ \A i, j \in DOMAIN f : i # j => f[i] # f[j]
        /\ \E i \in DOMAIN f : f[i].latitude # NaN /\ f[i].longitude # NaN}

HasCoordinates(r) == r.latitude # NaN /\ r.longitude # NaN

\* data = pd.read_csv(...); data = data.dropna(subset=['latitude', 'longitude'])
LoadDataset(file) == SelectSeq(file, HasCoordinates)

\* frame[column] = values: the column is added, or overwritten when present.
SetColumn(r, column, value) == (column :> value) @@ r

\* The scoring pass writing its result over the sentiment_score column.
ScoreColumn_WrongColumn(d, w) ==
    [i \in DOMAIN d |->
        SetColumn(SetColumn(d[i], "iis_score",
                  calculate_iis(d[i], w.sentiment, w.library, w.hospital)),
                  "sentiment_score",
                  calculate_iis(d[i], w.sentiment, w.library, w.hospital))]

\* frame['iis_score'] = frame.apply(lambda row: calculate_iis(row, ...), axis=1)
ScoreColumn(d, w) ==
    [i \in DOMAIN d |->
        SetColumn(d[i], "iis_score",
                  calculate_iis(d[i], w.sentiment, w.library, w.hospital))]

\* data['suitability_tag'] = data['iis_score'].apply(tag_site)
TagColumn(d) ==
    [i \in DOMAIN d |-> SetColumn(d[i], "suitability_tag", tag_site(d[i].iis_score))]

\* The raw columns of a frame, its derived columns left out.
RawColumns(d) == [i \in DOMAIN d |-> [f \in RawFields |-> d[i][f]]]

\* data[['site_name', 'proximity_to_library', 'proximity_to_hospital',
\*       'sentiment_score']]: the columns the matching prompt lists.
MatchColumns(d) ==
    [i \in DOMAIN d |->
        [f \in {"site_name", "proximity_to_library", "proximity_to_hospital",
                "sentiment_score"} |-> d[i][f]]]

SiteNames(d) == [i \in DOMAIN d |-> d[i].site_name]

IsIn(x, s) == \E i \in DOMAIN s : s[i] = x

\* data['site_name'].unique(): the names in order of first appearance.
RECURSIVE Unique(_)
Unique(names) ==
    IF names = <<>> THEN <<>>
    ELSE LET front == Unique(SubSeq(names, 1, Len(names) - 1))
             last == names[Len(names)]
         IN IF IsIn(last, front) THEN front ELSE Append(front, last)

\* What st.multiselect can return: chosen options, in the order chosen.
Selections(options) ==
    {s \in UNION {[1..k -> {options[i] : i \in DOMAIN options}] : k \in 0..MaxSelected} :
        \A i, j \in DOMAIN s : i # j => s[i] # s[j]}

\* The rows of the selection taken in the order the names were chosen.
SelectRows_BySelection(d, sel) ==
    LET RowOf(n) == d[CHOOSE i \in DOMAIN d : d[i].site_name = n]
    IN [k \in DOMAIN sel |-> RowOf(sel[k])]

\* data[data['site_name'].isin(selected)]: a boolean mask, so a new frame
\* holding the masked rows in the dataset's order.
SelectRows(d, sel) ==
    LET Chosen(r) == IsIn(r.site_name, sel) IN SelectSeq(d, Chosen)

\* What f"{x:.2f}" can print for the value num / (100000 * den), in
\* hundredths.  The float is a few ulps off the exact value, so an exact
\* tie prints as either neighbour.
Format2(num, den) ==
    IF num = NaN THEN {NaN}
    ELSE LET unit == 1000 * den
             q == num \div unit
             r == num % unit
         IN IF 2 * r < unit THEN {q}
            ELSE IF 2 * r > unit THEN {q + 1}
            ELSE {q, q + 1}

RECURSIVE SumScores(_)
SumScores(scores) ==
    IF scores = <<>> THEN 0 ELSE scores[1] + SumScores(Tail(scores))

IsNumber(x) == x # NaN

\* What f"{data['iis_score'].mean():.2f}" can print: Series.mean skips NaN,
\* and is NaN when nothing is left.
FormatMean(d) ==
    LET scores == SelectSeq([i \in DOMAIN d |-> d[i].iis_score], IsNumber)
    IN IF scores = <<>> THEN {NaN} ELSE Format2(SumScores(scores), Len(scores))

\* `if st.button("Run AI Analysis")`, the selection not looked at.
RunAnalysisGuard_ButtonOnly(pressed, sel) == pressed = "run"

\* `if st.button("Run AI Analysis") and selected`: an empty list is falsy.
RunAnalysisGuard(pressed, sel) == pressed = "run" /\ sel # <<>>

\* `if st.button("Match to Site") and name and needs`: "" is falsy.
MatchGuard(pressed, name, needs) == pressed = "match" /\ name # "" /\ needs # ""

WeightNames == {"sentiment", "library", "hospital"}

\* What is typed into a text input: nothing, or something.
Texts == {"", "text"}

\* ------------------------------------------------------------ the state

VARIABLES
    csv,               \* san_jose_eih_sites.csv, as read_csv parses it
    data,              \* the script's global frame `data`
    pc,                \* where the script's run stands
    button,            \* the button whose press started this run
    selected,          \* the multiselect's value
    sliders,           \* the three weight sliders' positions
    weights,           \* weight_sentiment, weight_library, weight_hospital
    deck,              \* the frame handed to the map layer (tooltips)
    analysis_request,  \* the chat-completion call of the analysis tab, if made
    citywide_avg,      \* the "Citywide Avg IIS" metric, if shown
    match_request,     \* the chat-completion call of the matching tab, if made
    feedback_log,      \* number of lines in site_feedback_log.txt
    in_row,            \* scorer run: the row given to calculate_iis
    in_w,              \* scorer run: the weights given to calculate_iis
    out_score,         \* scorer run: calculate_iis's result (or the probed score)
    out_tag,           \* scorer run: tag_site's result
    phase              \* scorer run: input, scored, tagged, probed

vars == <<csv, data, pc, button, selected, sliders, weights, deck,
          analysis_request, citywide_avg, match_request, feedback_log,
          in_row, in_w, out_score, out_tag, phase>>

dashVars == <<csv, data, pc, button, selected, sliders, weights, deck,
              analysis_request, citywide_avg, match_request, feedback_log>>

scorerVars == <<in_row, in_w, out_score, out_tag, phase>>

\* ------------------------------------------------------- the dashboard

\* The scorer run's variables while the dashboard runs.
ScorerIdle ==
    /\ in_row = Site("A", 37, -121, 0, 0, 100)
    /\ in_w = DefaultWeights
    /\ out_score = NaN
    /\ out_tag = ""
    /\ phase = "off"

\* The page is opened: nothing chosen, the sliders at their defaults, the
\* script about to run for the first time.
Init ==
    /\ csv \in CsvFiles
    /\ data = <<>>
    /\ pc = "start"
    /\ button = "none"
    /\ selected = <<>>
    /\ sliders = DefaultWeights
    /\ weights = DefaultWeights
    /\ deck = <<>>
    /\ analysis_request = <<>>
    /\ citywide_avg = <<>>
    /\ match_request = <<>>
    /\ feedback_log = 0
    /\ ScorerIdle

\* A run begins: the dataset is read and rows without coordinates dropped
\* (the Home tab then previews it).  The page of the previous run is
\* replaced as this run draws.
Load ==
    /\ pc = "start"
    /\ data' = LoadDataset(csv)
    /\ deck' = <<>>
    /\ analysis_request' = <<>>
    /\ citywide_avg' = <<>>
    /\ match_request' = <<>>
    /\ pc' = "tab2"
    /\ UNCHANGED <<csv, button, selected, sliders, weights, feedback_log, scorerVars>>

\* The Map Viewer tab: the scoring pass under the tab's own weights, the
\* tags, and the map whose tooltip shows each site's suitability_tag.
MapViewer ==
    /\ pc = "tab2"
    /\ weights' = DefaultWeights
    /\ data' = TagColumn(ScoreColumn(data, DefaultWeights))
    /\ deck' = data'
    /\ pc' = "tab3"
    /\ UNCHANGED <<csv, button, selected, sliders, analysis_request, citywide_avg,
                   match_request, feedback_log, scorerVars>>

\* One line of site_summary: f"- {site_name}: Library {..}m, Hospital {..}m,
\* Sentiment {..}, IIS Score: {iis_score:.2f}\n", the score as printed.
SummaryLine(row, printed) ==
    [site_name |-> row.site_name,
     proximity_to_library |-> row.proximity_to_library,
     proximity_to_hospital |-> row.proximity_to_hospital,
     sentiment_score |-> row.sentiment_score,
     iis_score |-> printed]

\* What site_summary can be for the frame selected_data: one line per row,
\* in the frame's order (for _, row in selected_data.iterrows()).
SummaryLines(selected_data) ==
    LET Printed == [i \in DOMAIN selected_data |-> Format2(selected_data[i].iis_score, 1)]
        Choices == {c \in [DOMAIN selected_data -> UNION {Printed[i] : i \in DOMAIN selected_data}] :
                       \A i \in DOMAIN selected_data : c[i] \in Printed[i]}
    IN {[i \in DOMAIN selected_data |-> SummaryLine(selected_data[i], c[i])] : c \in Choices}

\* The AI Site Analysis tab: the sliders are read into the weights; when the
\* run was started by "Run AI Analysis" and sites are selected, the selected
\* rows are copied and rescored, the prompt is built and sent.
AnalysisTab ==
    /\ pc = "tab3"
    /\ weights' = sliders
    /\ IF RunAnalysisGuard(button, selected)
       THEN LET selected_data == ScoreColumn(SelectRows(data, selected), weights')
            IN \E site_summary \in SummaryLines(selected_data) :
                  analysis_request' = <<[selected |-> selected,
                                         site_summary |-> site_summary,
                                         weight_summary |-> weights']>>
       ELSE analysis_request' = analysis_request
    /\ pc' = "tab4"
    /\ UNCHANGED <<csv, data, button, selected, sliders, deck, citywide_avg,
                   match_request, feedback_log, scorerVars>>

\* The Community Pulse tab: the tables are sorted copies of data; the metric
\* is the mean of data's iis_score column.
CommunityPulse ==
    /\ pc = "tab4"
    /\ \E shown \in FormatMean(data) : citywide_avg' = <<shown>>
    /\ pc' = "tab5"
    /\ UNCHANGED <<csv, data, button, selected, sliders, weights, deck,
                   analysis_request, match_request, feedback_log, scorerVars>>

\* The Resident Matching tab: with both texts filled in and the run started
\* by "Match to Site", the raw columns of every site go into the prompt.
ResidentMatching ==
    /\ pc = "tab5"
    /\ \E name \in Texts, needs \in Texts :
          IF MatchGuard(button, name, needs)
          THEN match_request' = <<[name |-> name, needs |-> needs,
                                   site_options |-> MatchColumns(data)]>>
          ELSE match_request' = match_request
    /\ pc' = "tab6"
    /\ UNCHANGED <<csv, data, button, selected, sliders, weights, deck,
                   analysis_request, citywide_avg, feedback_log, scorerVars>>

\* The Post-Site Feedback tab: a run started by "Save Feedback" appends one
\* line to the log file.  The script ends.
FeedbackTab ==
    /\ pc = "tab6"
    /\ feedback_log' = IF button = "save" THEN feedback_log + 1 ELSE feedback_log
    /\ pc' = "idle"
    /\ UNCHANGED <<csv, data, button, selected, sliders, weights, deck,
                   analysis_request, citywide_avg, match_request, scorerVars>>

\* The user changes the multiselect: the script runs again.
SelectSites ==
    /\ pc = "idle"
    /\ \E sel \in Selections(Unique(SiteNames(data))) :
          /\ sel # selected
          /\ selected' = sel
    /\ button' = "none"
    /\ pc' = "start"
    /\ UNCHANGED <<csv, data, sliders, weights, deck, analysis_request,
                   citywide_avg, match_request, feedback_log, scorerVars>>

\* The user moves one weight slider: the script runs again.
MoveSlider ==
    /\ pc = "idle"
    /\ \E which \in WeightNames : \E v \in SliderStops(which) :
          /\ v # sliders[which]
          /\ sliders' = [sliders EXCEPT ![which] = v]
    /\ button' = "none"
    /\ pc' = "start"
    /\ UNCHANGED <<csv, data, selected, weights, deck, analysis_request,
                   citywide_avg, match_request, feedback_log, scorerVars>>

\* The user presses "Run AI Analysis", "Match to Site" or "Save Feedback".
PressButton ==
    /\ pc = "idle"
    /\ \E b \in {"run", "match", "save"} :
          /\ b = "save" => feedback_log < MaxLog
          /\ button' = b
    /\ pc' = "start"
    /\ UNCHANGED <<csv, data, selected, sliders, weights, deck, analysis_request,
                   citywide_avg, match_request, feedback_log, scorerVars>>

Next ==
    \/ Load
    \/ MapViewer
    \/ AnalysisTab
    \/ CommunityPulse
    \/ ResidentMatching
    \/ FeedbackTab
    \/ SelectSites
    \/ MoveSlider
    \/ PressButton

Spec == Init /\ [][Next]_vars

\* ------------------------------------------------------ the scorer run

\* Scores tag_site is probed with: each threshold, the values next to it,
\* the ends of the nominal range, and NaN.
ScoreProbes ==
    {NaN, 0, ModerateThreshold - 1, ModerateThreshold, ModerateThreshold + 1,
     IdealThreshold - 1, IdealThreshold, IdealThreshold + 1, 100000}

\* The dashboard's variables while the scorer runs alone.
DashboardOff ==
    /\ csv = <<>>
    /\ data = <<>>
    /\ pc = "off"
    /\ button = "none"
    /\ selected = <<>>
    /\ sliders = DefaultWeights
    /\ weights = DefaultWeights
    /\ deck = <<>>
    /\ analysis_request = <<>>
    /\ citywide_avg = <<>>
    /\ match_request = <<>>
    /\ feedback_log = 0

\* calculate_iis and tag_site on their own: any site with numeric fields
\* (also out of range: the script validates nothing) and any slider weights.
InitScorer ==
    /\ DashboardOff
    /\ in_row \in {Site("S", 37, -121, lib, hosp, sent) :
                     lib \in ProxValues \cup {999, 1001},
                     hosp \in ProxValues \cup {999, 1001},
                     sent \in SentValues}
    /\ in_w \in [WeightNames -> SliderValues]
    /\ out_score = NaN
    /\ out_tag = ""
    /\ phase = "input"

\* score = calculate_iis(row, w_sent, w_lib, w_hosp)
ApplyScore ==
    /\ phase = "input"
    /\ out_score' = calculate_iis(in_row, in_w.sentiment, in_w.library, in_w.hospital)
    /\ phase' = "scored"
    /\ UNCHANGED <<dashVars, in_row, in_w, out_tag>>

\* tag = tag_site(score)
ApplyTag ==
    /\ phase = "scored"
    /\ out_tag' = tag_site(out_score)
    /\ phase' = "tagged"
    /\ UNCHANGED <<dashVars, in_row, in_w, out_score>>

\* tag_site applied to a score given directly.
ProbeTag ==
    /\ phase = "input"
    /\ \E s \in ScoreProbes :
          /\ out_score' = s
          /\ out_tag' = tag_site(s)
    /\ phase' = "probed"
    /\ UNCHANGED <<dashVars, in_row, in_w>>

NextScorer ==
    \/ ApplyScore
    \/ ApplyTag
    \/ ProbeTag

SpecScorer == InitScorer /\ [][NextScorer]_vars

\* ------------------------------------------------- properties: scorer

Scored == phase \in {"scored", "tagged"}

WithLibrary(row, p) == [row EXCEPT !.proximity_to_library = p]

WithHospital(row, p) == [row EXCEPT !.proximity_to_hospital = p]

WithSentiment(row, s) == [row EXCEPT !.sentiment_score = s]

ScoreOf(row) == calculate_iis(row, in_w.sentiment, in_w.library, in_w.hospital)

NominalInput ==
    /\ in_row.sentiment_score \in 0..100
    /\ in_row.proximity_to_library >= 0
    /\ in_row.proximity_to_hospital >= 0
    /\ in_w.sentiment >= 0 /\ in_w.library >= 0 /\ in_w.hospital >= 0
    /\ in_w.sentiment + in_w.library + in_w.hospital = 100

C6_TagBands ==
    (phase \in {"tagged", "probed"} /\ out_score # NaN) =>
        /\ out_tag \in {"Ideal", "Moderate", "Poor"}
        /\ out_tag = "Ideal" <=> out_score >= 75000
        /\ out_tag = "Moderate" <=> (out_score >= 50000 /\ out_score < 75000)
        /\ out_tag = "Poor" <=> out_score < 50000
        /\ out_score = 75000 => out_tag = "Ideal"
        /\ out_score = 74999 => out_tag = "Moderate"
        /\ out_score = 50000 => out_tag = "Moderate"
        /\ out_score = 49999 => out_tag = "Poor"

\* C6's case: tag_site applied to exactly 0.75.
C6_Witness == phase = "probed" /\ out_score = 75000 /\ out_tag = "Ideal"

\* C7: with the other fields and the weights fixed, a proximity_to_library
\* of 1000 or more gives exactly the score of proximity_to_library = 1000,
\* and likewise for proximity_to_hospital.
C7_Clamp ==
    Scored =>
        /\ in_row.proximity_to_library >= 1000 =>
              out_score = ScoreOf(WithLibrary(in_row, 1000))
        /\ in_row.proximity_to_hospital >= 1000 =>
              out_score = ScoreOf(WithHospital(in_row, 1000))

\* C7's case: a library beyond the cap scored under a positive library weight.
C7_Witness ==
    /\ phase = "scored"
    /\ in_row.proximity_to_library = 1250 /\ in_w.library = 100
    /\ in_row.proximity_to_hospital = 500
    /\ out_score = ScoreOf(WithLibrary(in_row, 1000))

\* C8: for weights the sliders can supply, a smaller proximity_to_library or
\* proximity_to_hospital (other fields and weights fixed) never gives a
\* smaller score.
C8_MonotoneInProximity ==
    Scored =>
        \A p \in ProxValues \cup {999, 1001} :
            /\ p <= in_row.proximity_to_library => ScoreOf(WithLibrary(in_row, p)) >= out_score
            /\ p <= in_row.proximity_to_hospital => ScoreOf(WithHospital(in_row, p)) >= out_score

\* C8's case: a site scored under a positive library weight, for which a
\* nearer library scores strictly more.
C8_Witness ==
    /\ phase = "scored"
    /\ in_row.proximity_to_library = 500 /\ in_w.library = 33
    /\ ScoreOf(WithLibrary(in_row, 250)) > out_score

\* C9: for weights the sliders can supply, a larger sentiment_score (other
\* fields and weights fixed) never gives a smaller score.
C9_MonotoneInSentiment ==
    Scored =>
        \A s \in SentValues :
            s >= in_row.sentiment_score => ScoreOf(WithSentiment(in_row, s)) >= out_score

\* C9's case: a site scored under a positive sentiment weight, for which a
\* higher sentiment scores strictly more.
C9_Witness ==
    /\ phase = "scored"
    /\ in_row.sentiment_score = 50 /\ in_w.sentiment = 33
    /\ ScoreOf(WithSentiment(in_row, 75)) > out_score

\* ---------------------------------------------- properties: dashboard

\* The Map Viewer tab has drawn (and the sliders hold the current weights).
MapDrawn == pc \in {"tab3", "tab4", "tab5", "tab6", "idle"}

CurrentScore(row) ==
    calculate_iis(row, sliders.sentiment, sliders.library, sliders.hospital)

CurrentScores(d) == [i \in DOMAIN d |-> [iis_score |-> CurrentScore(d[i])]]

LacksRequiredField(row) ==
    \/ row.proximity_to_library = NaN
    \/ row.proximity_to_hospital = NaN
    \/ row.sentiment_score = NaN

\* C2: whatever iis_score or suitability_tag is displayed or used (the map
\* tooltip's tag, the citywide average IIS, a prompt line) is the value
\* computed from the site's raw fields and the sliders' current weights.
C2_DerivedUnderCurrentWeights ==
    MapDrawn =>
        /\ \A i \in DOMAIN deck :
              /\ deck[i].iis_score = CurrentScore(deck[i])
              /\ deck[i].suitability_tag = tag_site(CurrentScore(deck[i]))
        /\ citywide_avg # <<>> => citywide_avg[1] \in FormatMean(CurrentScores(data))
        /\ analysis_request # <<>> =>
              \A i \in DOMAIN analysis_request[1].site_summary :
                  LET line == analysis_request[1].site_summary[i]
                  IN line.iis_score \in Format2(CurrentScore(line), 1)

\* The names of the dataset's rows that are selected, in the dataset's order.
DatasetOrderOfSelection ==
    LET Chosen(n) == IsIn(n, analysis_request[1].selected)
    IN SelectSeq(SiteNames(data), Chosen)

\* C3 as stated: the prompt's site lines appear in the order of the input
\* selection (selecting B then A lists B before A).
C3_SummaryInSelectionOrder ==
    analysis_request # <<>> =>
        SiteNames(analysis_request[1].site_summary) = analysis_request[1].selected

\* C3 as amended: the prompt's site lines are the selected sites in the order
\* of the dataset, whatever the order of selection and whatever the scores.
C3_SummaryInDatasetOrder ==
    analysis_request # <<>> =>
        SiteNames(analysis_request[1].site_summary) = DatasetOrderOfSelection

\* C3's case: B then A selected from a dataset that holds A before B, and the
\* prompt built: it lists A before B.
C3_Witness ==
    /\ analysis_request # <<>>
    /\ SiteNames(data) = <<"A", "B">>
    /\ analysis_request[1].selected = <<"B", "A">>
    /\ SiteNames(analysis_request[1].site_summary) = <<"A", "B">>

\* C4: "Run AI Analysis" pressed on an empty selection builds no prompt and
\* makes no chat-completion call; a call is only ever made for a non-empty
\* selection (and carries a non-empty summary).
C4_NoCallOnEmptySelection ==
    /\ (pc \in {"tab4", "tab5", "tab6", "idle"} /\ selected = <<>>) => analysis_request = <<>>
    /\ analysis_request # <<>> =>
          /\ analysis_request[1].selected # <<>>
          /\ analysis_request[1].site_summary # <<>>

\* C4's case: the button pressed with nothing selected, the analysis tab
\* passed, and no call made.
C4_Witness ==
    /\ button = "run" /\ selected = <<>>
    /\ pc = "tab4"
    /\ analysis_request = <<>>

\* C5: a site whose record lacks proximity_to_library, proximity_to_hospital
\* or sentiment_score gets no score and no suitability tag from the scoring
\* pass (the pass ends in an error instead; no default stands in).
C5_MissingFieldNotScored ==
    MapDrawn =>
        \A i \in DOMAIN data :
            LacksRequiredField(data[i]) =>
                /\ "iis_score" \notin DOMAIN data[i]
                /\ "suitability_tag" \notin DOMAIN data[i]

\* C10 as stated: once loaded, nothing held in the dataset value `data` is
\* changed by any operation of the dashboard.
C10_DataNeverChanges == [][pc # "start" => data' = data]_vars

\* C10 as amended: once loaded, no operation adds, removes or reorders a site
\* or changes a raw field of `data`; only the Map Viewer tab's scoring pass
\* changes `data`, by writing the derived iis_score and suitability_tag.
C10_RawDataNeverChanges ==
    [][pc # "start" =>
          /\ RawColumns(data') = RawColumns(data)
          /\ data' # data => pc = "tab2"]_vars

\* C10's case: a load that dropped a row without coordinates, the scoring
\* pass then run over the dataset, whose raw columns are those loaded.
C10_Witness ==
    /\ pc = "tab3"
    /\ Len(data) < Len(csv)
    /\ \A i \in DOMAIN data : "iis_score" \in DOMAIN data[i]
    /\ RawColumns(data) = LoadDataset(csv)

====
